---- MODULE Spec2Model ----
(***************************************************************************)
(* Batch download orchestrator of src/app.py: the start handler, the       *)
(* run_downloads thread with its ThreadPoolExecutor, download_single_video *)
(* with its progress hook, the lock-protected DownloadProgress store, the  *)
(* download directory, and the page's polling and file listing.            *)
(*                                                                         *)
(* Strings built by the code are modelled as sequences of tokens, so that  *)
(* f-strings are concatenations and title[:30] is a prefix.                *)
(***************************************************************************)
EXTENDS Bags, FiniteSets, Integers, Sequences, TLC

----------------------------------------------------------------------------
\* Bounds of the model.

\* Longest batch submitted under Spec, under SpecProgress and under SpecPool.
MaxJobs == 2
MaxWatched == 2
MaxPooled == 4
\* Progress-hook calls the engine makes, over the whole run.
MaxEvents == 2
\* Files the engine writes into DOWNLOAD_DIR, over the whole run.
MaxWrites == 2
\* Longest list of paths handed to create_zip_download under SpecZip.
MaxFiles == 2
\* Length of the batches submitted under SpecScenario.
MaxScenario == 3
\* Longest batch submitted under SpecLive.
MaxLive == 2

\* ThreadPoolExecutor(max_workers=3)
MaxWorkers == 3
\* title[:30]
TitleCut == 30

----------------------------------------------------------------------------
\* Values.

URLs == {"u1", "u2"}

\* What the engine's extract_info reports as the title of each URL.  The
\* second title extends the first: titles are distinct, one a prefix of the
\* other.
EngineTitle(url) == IF url = "u1" THEN <<"a">> ELSE <<"a", "b">>

\* str(e) of the exceptions the engine raises.
Errors == {"E"}

\* Suffixes of the files the engine leaves on disk: a media file (not the
\* predicted mp4, and in upper case) and a file that is no media file.
EngineExts == {"MP3", "part"}

\* The percent levels the engine reports within one stream.
Levels == {0, 50, 100}

\* The "no path" value of file_path (None).
None == [stem |-> <<>>, ext |-> ""]

\* The obj field of a copy's entry that is an alias.
Free == [status |-> <<>>, progress |-> <<>>]

Range(f) == {f[x] : x \in DOMAIN f}

Min(S) == CHOOSE x \in S : \A y \in S : x <= y

Take(s, n) == SubSeq(s, 1, IF Len(s) < n THEN Len(s) ELSE n)

\* str.startswith
StartsWith(s, p) == Len(p) <= Len(s) /\ SubSeq(s, 1, Len(p)) = p

\* str.lower on the suffixes of the model
Lower(ext) == IF ext = "MP3" THEN "mp3" ELSE ext

\* The media allow-list of lines 104, 393 and 432.
MediaExts == {"mp4", "mp3", "m4a", "webm", "mkv", "wav", "flac"}

\* f"{percent:.1f}%"
Format1f(percent) ==
    IF percent = 0 THEN <<"0.0", "%">>
    ELSE IF percent = 50 THEN <<"50.0", "%">>
    ELSE <<"100.0", "%">>

\* d['_percent_str'] as the engine pads it, and .strip()
PercentStr(level) == <<" ">> \o Format1f(level)

Strip(s) ==
    LET first == Min({i \in 1 .. Len(s) + 1 : i = Len(s) + 1 \/ s[i] # " "})
        rest  == SubSeq(s, first, Len(s))
        last  == IF rest = <<>> THEN 0
                 ELSE CHOOSE j \in 1 .. Len(rest) :
                        /\ rest[j] # " "
                        /\ \A k \in j + 1 .. Len(rest) : rest[k] = " "
    IN  SubSeq(rest, 1, last)

\* f'Video_{video_id}'
DefaultTitle(video_id) == <<"Video_", ToString(video_id)>>

----------------------------------------------------------------------------
VARIABLES
    urls,              \* the valid URLs of the text area, as run_downloads reads them
    is_downloading,    \* st.session_state.is_downloading
    download_results,  \* st.session_state.download_results
    tracker,           \* st.session_state.progress_tracker_instance is set
    progress_data,     \* DownloadProgress.progress_data: video_id -> dict object
    snapshot,          \* the copy the page last got from get_all_progress
    rpc,               \* where the run_downloads thread is
    results,           \* run_downloads' local list
    jpc,               \* where each submitted download_single_video call is
    title,             \* download_single_video's local title
    future,            \* the outcome of each submitted call
    stream,            \* engine: percent reached in the stream being downloaded
    disk,              \* DOWNLOAD_DIR: file name -> [mtime, by]; by is the call of
                       \* this batch that wrote the file, 0 for an older file
    nEvents,           \* progress-hook calls made so far
    nWrites,           \* files written so far (the clock of the modification times)
    files_list,        \* the argument of the last create_zip_download call
    zip_data           \* what that call returned

vars == <<urls, is_downloading, download_results, tracker, progress_data,
          snapshot, rpc, results, jpc, title, future, stream, disk, nEvents,
          nWrites, files_list, zip_data>>

Jobs == DOMAIN urls

Pending == [kind |-> "pending", result |-> [url |-> "", title |-> <<>>,
              status |-> "", message |-> <<>>, file_path |-> None]]

----------------------------------------------------------------------------
\* DownloadProgress
\*
\* progress_data maps a video_id to a dict object {'status':, 'progress':}.
\* A copy of the mapping holds, for each key, either the very object that
\* progress_data holds now (alias) or an object progress_data has since let
\* go of (obj).

\* A slip update_progress could make: write into the dict object that is
\* already bound to video_id.
update_progress_in_place(data, snap, video_id, status, progress) ==
    [data |-> [v \in DOMAIN data \cup {video_id} |->
                 IF v = video_id
                 THEN [status |-> status,
                       progress |-> IF progress = <<>> THEN <<"0", "%">> ELSE progress]
                 ELSE data[v]],
     snap |-> snap]

\* update_progress: under the lock, bind video_id to a NEW dict object; a
\* copy that held the old object keeps it.
update_progress(data, snap, video_id, status, progress) ==
    [data |-> [v \in DOMAIN data \cup {video_id} |->
                 IF v = video_id
                 THEN [status |-> status,
                       progress |-> IF progress = <<>> THEN <<"0", "%">> ELSE progress]
                 ELSE data[v]],
     snap |-> [v \in DOMAIN snap |->
                 IF v = video_id /\ snap[v].alias
                 THEN [alias |-> FALSE, obj |-> data[v]]
                 ELSE snap[v]]]

\* get_all_progress: under the lock, progress_data.copy(), a new mapping
\* to the same objects.
get_all_progress(data) == [v \in DOMAIN data |-> [alias |-> TRUE, obj |-> Free]]

\* What the holder of a copy reads through it.
View(snap, data) == [v \in DOMAIN snap |-> IF snap[v].alias THEN data[v] ELSE snap[v].obj]

----------------------------------------------------------------------------
\* create_progress_hook / progress_hook

\* The dicts d the engine passes to a progress hook, for a stream that has
\* reached `level`.  total_bytes = 0 is a stream of unknown size.
HookEvents(level) ==
    {[status |-> "downloading", keys |-> {"_percent_str"},
      percent_str |-> PercentStr(level), downloaded_bytes |-> 0, total_bytes |-> 0],
     [status |-> "downloading", keys |-> {"downloaded_bytes", "total_bytes"},
      percent_str |-> <<>>, downloaded_bytes |-> level \div 50, total_bytes |-> 2],
     [status |-> "downloading", keys |-> {"downloaded_bytes", "total_bytes"},
      percent_str |-> <<>>, downloaded_bytes |-> 0, total_bytes |-> 0],
     [status |-> "downloading", keys |-> {},
      percent_str |-> <<>>, downloaded_bytes |-> 0, total_bytes |-> 0],
     [status |-> "finished", keys |-> {},
      percent_str |-> <<>>, downloaded_bytes |-> 0, total_bytes |-> 0],
     [status |-> "error", keys |-> {},
      percent_str |-> <<>>, downloaded_bytes |-> 0, total_bytes |-> 0]}

\* Line 64 divides by d['total_bytes'].
HookRaises(d) ==
    /\ d.status = "downloading"
    /\ "_percent_str" \notin d.keys
    /\ {"downloaded_bytes", "total_bytes"} \subseteq d.keys
    /\ d.total_bytes = 0

\* The update_progress call progress_hook makes for d: <<>> when it makes
\* none, else <<status, progress>>.
HookUpdate(d) ==
    IF d.status = "downloading"
    THEN IF "_percent_str" \in d.keys
         THEN <<<<"Downloading">>, Strip(d.percent_str)>>
         ELSE IF {"downloaded_bytes", "total_bytes"} \subseteq d.keys
              THEN <<<<"Downloading">>,
                     Format1f((d.downloaded_bytes * 100) \div d.total_bytes)>>
              ELSE <<>>
    ELSE IF d.status = "finished"
         THEN <<<<"Complete">>, <<"100", "%">>>>
         ELSE <<>>

----------------------------------------------------------------------------
\* download_single_video

\* f"Downloading: {title[:30]}..."
DownloadingStatus(t) == <<"Downloading:">> \o Take(t, TitleCut) \o <<"...">>

\* f"Error: {str(e)}"
ErrorMsg(e) == <<"Error:", e>>

\* ydl.prepare_filename(info) under outtmpl '%(title)s.%(ext)s'
PrepareFilename(url) == [stem |-> EngineTitle(url), ext |-> "mp4"]

\* A slip the scan could make: no test of the suffix.
FoundFilesAnySuffix(d, expected) ==
    {f \in DOMAIN d : StartsWith(f.stem, expected.stem)}

\* Lines 99-105: the files of the directory whose stem starts with the
\* expected stem and whose lower-cased suffix is a media suffix.
FoundFiles(d, expected) ==
    {f \in DOMAIN d : StartsWith(f.stem, expected.stem) /\ Lower(f.ext) \in MediaExts}

\* A slip the sort could make: oldest first.
FirstSortedOldest(d, found) == {f \in found : \A g \in found : d[f].mtime <= d[g].mtime}

\* Lines 109-110: the candidates that can come first after the sort by
\* st_mtime, most recent first.
FirstSorted(d, found) == {f \in found : \A g \in found : d[g].mtime <= d[f].mtime}

\* A slip line 122 could make: no look at file_path.
ResultStatusSuccess(file_path) == "success"

\* Line 122
ResultStatus(file_path) == IF file_path # None THEN "success" ELSE "warning"

\* Lines 107-125: the dict returned when the fetch raised nothing.
ReturnedResult(url, t, file_path) ==
    [kind |-> "returned",
     result |-> [url |-> url, title |-> t, status |-> ResultStatus(file_path),
                 message |-> IF file_path # None THEN <<"Downloaded successfully">>
                             ELSE <<"Download completed but file not found on disk">>,
                 file_path |-> file_path]]

\* A slip the handler could make: let the exception leave the call.
ExceptionEscapes(url, t, e) ==
    [kind |-> "raised",
     result |-> [url |-> "", title |-> <<>>, status |-> "", message |-> <<>>,
                 file_path |-> None]]

\* Lines 127-137: the dict returned by the exception handler.
ExceptionOutcome(url, t, e) ==
    [kind |-> "returned",
     result |-> [url |-> url, title |-> t, status |-> "error",
                 message |-> ErrorMsg(e), file_path |-> None]]

----------------------------------------------------------------------------
\* create_zip_download
\*
\* A path is a directory and a file name; the archive is modelled by the
\* sequence of the names of its entries, in the order they were written.

DownloadDir == "youtube_downloads"

\* str(f) for a file f of DOWNLOAD_DIR
Str(f) == [dir |-> DownloadDir, name |-> f]

\* os.path.basename
Basename(file_path) == file_path.name

\* A slip the loop could make: no test that the file is there.
ExistsAlways(file_path, d) == TRUE

\* os.path.exists, with d the content of DOWNLOAD_DIR
Exists(file_path, d) == file_path.dir = DownloadDir /\ file_path.name \in DOMAIN d

\* The value None of zip_data, and its value before any call.
NoArchive == [kind |-> "None", entries |-> <<>>]
NotCalled == [kind |-> "not called", entries |-> <<>>]

\* Lines 162-165: one entry, named by the base name, for each path of the
\* list that exists.
RECURSIVE ZipEntries(_, _)
ZipEntries(files, d) ==
    IF files = <<>> THEN <<>>
    ELSE IF Exists(Head(files), d)
         THEN <<Basename(Head(files))>> \o ZipEntries(Tail(files), d)
         ELSE ZipEntries(Tail(files), d)

\* Lines 155-168
create_zip_download(files, d) ==
    IF files = <<>> THEN NoArchive
    ELSE [kind |-> "bytes", entries |-> ZipEntries(files, d)]

----------------------------------------------------------------------------
\* run_downloads

\* Workers of the pool that hold a call.
Running == {i \in Jobs : jpc[i] \in {"l83", "l89"}}

\* A slip the loop could make: keep the last result only.
CollectResultOverwrites(res, r) == <<r>>

\* Line 366
CollectResult(res, r) == Append(res, r)

\* A slip the thread could make: go on after the first result.
FirstResultIn == \E i \in Jobs : jpc[i] = "collected"

\* Lines 351, 364: the as_completed loop has yielded every future and the
\* executor's with-block has joined its workers.
PoolJoined == \A i \in Jobs : jpc[i] = "collected"

----------------------------------------------------------------------------
\* The engine (yt_dlp) as the code sees it.

\* ydl.extract_info(url, download=False)
EngineInfo(url) == [keys |-> {"title"}, title |-> EngineTitle(url)]

\* info.get('title', f'Video_{video_id}')
InfoTitle(info, video_id) ==
    IF "title" \in info.keys THEN info.title ELSE DefaultTitle(video_id)

----------------------------------------------------------------------------
\* The page after a batch (lines 382-426).

\* Lines 392-393 and 431-432: the media files of DOWNLOAD_DIR.
VideoFiles(d) == {f \in DOMAIN d : Lower(f.ext) \in MediaExts}

\* Line 384
Completed(res) == Cardinality({k \in DOMAIN res : res[k].status = "success"})

\* Lines 382, 387, 391-397: the files listed under "Your Downloaded Files
\* (From Latest Batch)"; none while the section is not shown.
BatchListing ==
    IF download_results # <<>> /\ ~is_downloading /\ Completed(download_results) > 0
    THEN VideoFiles(disk)
    ELSE {}

\* Lines 382, 387, 426: the message "All downloads failed" is shown.
AllFailedShown ==
    download_results # <<>> /\ ~is_downloading /\ Completed(download_results) = 0

\* A list of the members of S, in some order (the order glob yields).
ListOf(S) == CHOOSE s \in [1 .. Cardinality(S) -> S] : Range(s) = S

\* Lines 401-403: the archive offered with the listing; none while the
\* listing is not shown or holds fewer than two files.
BatchZip ==
    IF Cardinality(BatchListing) > 1
    THEN create_zip_download(ListOf({Str(f) : f \in BatchListing}), disk)
    ELSE NoArchive

\* A slip the page could make: the handler can run while a batch is
\* downloading.
StartAlwaysEnabled(us) == us # <<>>

\* Lines 259-276 and 292-299: the script reaches the button only while no
\* batch is downloading, the button is disabled without valid URLs, and
\* the handler asks for URLs again.
StartEnabled(us) == us # <<>> /\ ~is_downloading

\* A slip the handler could make: keep the tracker of the batch before.
SameDownloadProgress == progress_data

\* Lines 37-39, 307: progress_data of a new DownloadProgress.
NewDownloadProgress == <<>>

----------------------------------------------------------------------------
Init ==
    /\ urls = <<>>
    /\ is_downloading = FALSE
    /\ download_results = <<>>
    /\ tracker = FALSE
    /\ progress_data = <<>>
    /\ snapshot = <<>>
    /\ rpc = "none"
    /\ results = <<>>
    /\ jpc = <<>>
    /\ title = <<>>
    /\ future = <<>>
    /\ stream = <<>>
    /\ disk = <<>>
    /\ nEvents = 0
    /\ nWrites = 0
    /\ files_list = <<>>
    /\ zip_data = NotCalled

\* Lines 292-379: the button is enabled while there are URLs and no batch
\* is downloading; the handler resets the session state, makes a new
\* DownloadProgress and starts the run_downloads thread, which submits
\* every URL to the executor (lines 353-361).
StartBatch(us) ==
    /\ StartEnabled(us)
    /\ urls' = us
    /\ is_downloading' = TRUE
    /\ download_results' = <<>>
    /\ tracker' = TRUE
    /\ progress_data' = NewDownloadProgress
    /\ snapshot' = <<>>
    /\ rpc' = "pool"
    /\ results' = <<>>
    /\ jpc' = [i \in DOMAIN us |-> "queued"]
    /\ title' = [i \in DOMAIN us |-> DefaultTitle(i)]
    /\ future' = [i \in DOMAIN us |-> Pending]
    /\ stream' = [i \in DOMAIN us |-> 0]
    /\ disk' = [f \in DOMAIN disk |-> [disk[f] EXCEPT !.by = 0]]
    /\ UNCHANGED <<nEvents, nWrites>>
    /\ UNCHANGED <<files_list, zip_data>>

\* Store a new state of the progress tracker.
SetStore(st) ==
    /\ progress_data' = st.data
    /\ snapshot' = st.snap

\* A free worker takes the oldest queued call; lines 72-75.
WorkerStart(i) ==
    /\ i \in Jobs
    /\ rpc = "pool"
    /\ jpc[i] = "queued"
    /\ \A j \in Jobs : j < i => jpc[j] # "queued"
    /\ Cardinality(Running) < MaxWorkers
    /\ SetStore(update_progress(progress_data, snapshot, i,
                                <<"Starting">>, <<"0", "%">>))
    /\ jpc' = [jpc EXCEPT ![i] = "l83"]
    /\ UNCHANGED <<urls, is_downloading, download_results, tracker, rpc,
                   results, title, future, stream, disk, nEvents, nWrites>>
    /\ UNCHANGED <<files_list, zip_data>>

\* Lines 83-86: extract_info returns.
ExtractInfo(i) ==
    /\ i \in Jobs
    /\ jpc[i] = "l83"
    /\ LET t == InfoTitle(EngineInfo(urls[i]), i)
       IN  /\ title' = [title EXCEPT ![i] = t]
           /\ SetStore(update_progress(progress_data, snapshot, i,
                                       DownloadingStatus(t), <<"0", "%">>))
    /\ jpc' = [jpc EXCEPT ![i] = "l89"]
    /\ UNCHANGED <<urls, is_downloading, download_results, tracker, rpc,
                   results, future, stream, disk, nEvents, nWrites>>
    /\ UNCHANGED <<files_list, zip_data>>

\* Lines 127-137, entered from line `at` with exception e.
Except(i, at, e) ==
    /\ i \in Jobs
    /\ jpc[i] = at
    /\ SetStore(update_progress(progress_data, snapshot, i,
                                ErrorMsg(e), <<"Failed">>))
    /\ future' = [future EXCEPT ![i] = ExceptionOutcome(urls[i], title[i], e)]
    /\ stream' = [stream EXCEPT ![i] = 0]
    /\ jpc' = [jpc EXCEPT ![i] = "done"]

\* Line 83: extract_info raises.
ExtractRaises(i, e) ==
    /\ Except(i, "l83", e)
    /\ UNCHANGED <<urls, is_downloading, download_results, tracker, rpc,
                   results, title, disk, nEvents, nWrites>>
    /\ UNCHANGED <<files_list, zip_data>>

\* Line 89: during download the engine calls the progress hook with d.  A
\* stream reports levels that do not decrease; after 'finished' the engine
\* may go on with the next stream of the format (video, then audio).
ProgressHook(i, l, d) ==
    /\ i \in Jobs
    /\ jpc[i] = "l89"
    /\ l >= stream[i]
    /\ nEvents < MaxEvents
    /\ nEvents' = nEvents + 1
    /\ IF HookRaises(d)
       THEN Except(i, "l89", "E")
       ELSE /\ IF HookUpdate(d) = <<>>
               THEN UNCHANGED <<progress_data, snapshot>>
               ELSE SetStore(update_progress(progress_data, snapshot, i,
                                             HookUpdate(d)[1], HookUpdate(d)[2]))
            /\ stream' = [stream EXCEPT ![i] =
                            IF d.status = "finished" THEN 0
                            ELSE IF d.status = "downloading" /\ d.keys # {} THEN l
                            ELSE @]
            /\ UNCHANGED <<future, jpc>>
    /\ UNCHANGED <<urls, is_downloading, download_results, tracker, rpc,
                   results, title, disk, nWrites>>
    /\ UNCHANGED <<files_list, zip_data>>

\* Line 89: during download (and post-processing) the engine leaves a file
\* named after the title in DOWNLOAD_DIR.
EngineWrites(i, ext) ==
    /\ i \in Jobs
    /\ jpc[i] = "l89"
    /\ nWrites < MaxWrites
    /\ nWrites' = nWrites + 1
    /\ LET f == [stem |-> EngineTitle(urls[i]), ext |-> ext]
       IN  disk' = [g \in DOMAIN disk \cup {f} |->
                      IF g = f THEN [mtime |-> nWrites + 1, by |-> i] ELSE disk[g]]
    /\ UNCHANGED <<urls, is_downloading, download_results, tracker, progress_data,
                   snapshot, rpc, results, jpc, title, future, stream, nEvents>>
    /\ UNCHANGED <<files_list, zip_data>>

\* Lines 89-125: download returns; the directory is scanned for the output.
DownloadReturns(i) ==
    /\ i \in Jobs
    /\ jpc[i] = "l89"
    /\ LET found == FoundFiles(disk, PrepareFilename(urls[i]))
       IN  IF found # {}
           THEN \E f \in FirstSorted(disk, found) :
                    future' = [future EXCEPT ![i] = ReturnedResult(urls[i], title[i], f)]
           ELSE future' = [future EXCEPT ![i] = ReturnedResult(urls[i], title[i], None)]
    /\ stream' = [stream EXCEPT ![i] = 0]
    /\ jpc' = [jpc EXCEPT ![i] = "done"]
    /\ UNCHANGED <<urls, is_downloading, download_results, tracker, progress_data,
                   snapshot, rpc, results, title, disk, nEvents, nWrites>>
    /\ UNCHANGED <<files_list, zip_data>>

\* Line 89: download raises.
DownloadRaises(i, e) ==
    /\ Except(i, "l89", e)
    /\ UNCHANGED <<urls, is_downloading, download_results, tracker, rpc,
                   results, title, disk, nEvents, nWrites>>
    /\ UNCHANGED <<files_list, zip_data>>

\* Lines 364-366: as_completed yields a completed future; future.result()
\* returns its dict, or re-raises what the call raised and ends the thread.
Collect(i) ==
    /\ i \in Jobs
    /\ rpc = "pool"
    /\ jpc[i] = "done"
    /\ jpc' = [jpc EXCEPT ![i] = "collected"]
    /\ IF future[i].kind = "raised"
       THEN rpc' = "crashed" /\ UNCHANGED results
       ELSE results' = CollectResult(results, future[i].result) /\ UNCHANGED rpc
    /\ UNCHANGED <<urls, is_downloading, download_results, tracker, progress_data,
                   snapshot, title, future, stream, disk, nEvents, nWrites>>
    /\ UNCHANGED <<files_list, zip_data>>

\* Line 369
Publish ==
    /\ rpc = "pool"
    /\ PoolJoined
    /\ download_results' = results
    /\ rpc' = "l370"
    /\ UNCHANGED <<urls, is_downloading, tracker, progress_data, snapshot,
                   results, jpc, title, future, stream, disk, nEvents, nWrites>>
    /\ UNCHANGED <<files_list, zip_data>>

\* Lines 370-372
ResetFlag ==
    /\ rpc = "l370"
    /\ is_downloading' = FALSE
    /\ rpc' = "none"
    /\ UNCHANGED <<urls, download_results, tracker, progress_data, snapshot,
                   results, jpc, title, future, stream, disk, nEvents, nWrites>>
    /\ UNCHANGED <<files_list, zip_data>>

\* Lines 259-261: while a batch is downloading the page polls the tracker.
Poll ==
    /\ is_downloading
    /\ tracker
    /\ snapshot' = get_all_progress(progress_data)
    /\ snapshot' # snapshot
    /\ UNCHANGED <<urls, is_downloading, download_results, tracker, progress_data,
                   rpc, results, jpc, title, future, stream, disk, nEvents, nWrites>>
    /\ UNCHANGED <<files_list, zip_data>>

\* The batches of at most n URLs the user can submit.
Batches(n) == UNION {[1 .. k -> URLs] : k \in 1 .. n}

\* Batches whose engine leaves files in DOWNLOAD_DIR.
Next ==
    \/ \E us \in Batches(MaxJobs) : StartBatch(us)
    \/ \E i \in 1 .. MaxJobs : WorkerStart(i)
    \/ \E i \in 1 .. MaxJobs : ExtractInfo(i)
    \/ \E i \in 1 .. MaxJobs, e \in Errors : ExtractRaises(i, e)
    \/ \E i \in 1 .. MaxJobs : DownloadReturns(i)
    \/ \E i \in 1 .. MaxJobs, e \in Errors : DownloadRaises(i, e)
    \/ \E i \in 1 .. MaxJobs : Collect(i)
    \/ Publish
    \/ ResetFlag
    \/ \E i \in 1 .. MaxJobs, ext \in EngineExts : EngineWrites(i, ext)

Spec == Init /\ [][Next]_vars

\* A batch that names one URL on every line.
SameUrlBatch(us) == (\A i \in DOMAIN us : us[i] = "u1") /\ StartBatch(us)

\* Such batches, whose engine reports progress, watched by the polling page.
NextProgress ==
    \/ \E us \in Batches(MaxWatched) : SameUrlBatch(us)
    \/ \E i \in 1 .. MaxWatched : WorkerStart(i)
    \/ \E i \in 1 .. MaxWatched : ExtractInfo(i)
    \/ \E i \in 1 .. MaxWatched, e \in Errors : ExtractRaises(i, e)
    \/ \E i \in 1 .. MaxWatched : DownloadReturns(i)
    \/ \E i \in 1 .. MaxWatched, e \in Errors : DownloadRaises(i, e)
    \/ \E i \in 1 .. MaxWatched : Collect(i)
    \/ Publish
    \/ ResetFlag
    \/ \E i \in 1 .. MaxWatched, l \in Levels :
          \E d \in HookEvents(l) : ProgressHook(i, l, d)
    \/ Poll

SpecProgress == Init /\ [][NextProgress]_vars

\* Such batches, longer than the pool has workers, whose engine reports
\* progress.
NextPool ==
    \/ \E us \in Batches(MaxPooled) : SameUrlBatch(us)
    \/ \E i \in 1 .. MaxPooled : WorkerStart(i)
    \/ \E i \in 1 .. MaxPooled : ExtractInfo(i)
    \/ \E i \in 1 .. MaxPooled, e \in Errors : ExtractRaises(i, e)
    \/ \E i \in 1 .. MaxPooled : DownloadReturns(i)
    \/ \E i \in 1 .. MaxPooled, e \in Errors : DownloadRaises(i, e)
    \/ \E i \in 1 .. MaxPooled : Collect(i)
    \/ Publish
    \/ ResetFlag
    \/ \E i \in 1 .. MaxPooled, l \in Levels :
          \E d \in HookEvents(l) : ProgressHook(i, l, d)

SpecPool == Init /\ [][NextPool]_vars

\* The files the engine can leave in DOWNLOAD_DIR, and the contents the
\* directory can have.
EngineFiles == {[stem |-> EngineTitle(u), ext |-> e] : u \in URLs, e \in EngineExts}

Directories ==
    {[f \in S |-> [mtime |-> 0, by |-> 0]] : S \in SUBSET EngineFiles}

\* The lists of at most n paths of DOWNLOAD_DIR.
FileLists(n) == UNION {[1 .. k -> {Str(f) : f \in EngineFiles}] : k \in 0 .. n}

\* create_zip_download is called with a list of paths.
CreateZipDownload(files) ==
    /\ files_list' = files
    /\ zip_data' = create_zip_download(files, disk)
    /\ UNCHANGED <<urls, is_downloading, download_results, tracker, progress_data,
                   snapshot, rpc, results, jpc, title, future, stream, disk,
                   nEvents, nWrites>>

\* create_zip_download on any list of paths, over any content of the
\* directory.
InitZip ==
    /\ urls = <<>>
    /\ is_downloading = FALSE
    /\ download_results = <<>>
    /\ tracker = FALSE
    /\ progress_data = <<>>
    /\ snapshot = <<>>
    /\ rpc = "none"
    /\ results = <<>>
    /\ jpc = <<>>
    /\ title = <<>>
    /\ future = <<>>
    /\ stream = <<>>
    /\ disk \in Directories
    /\ nEvents = 0
    /\ nWrites = 0
    /\ files_list = <<>>
    /\ zip_data = NotCalled

NextZip == \E files \in FileLists(MaxFiles) : CreateZipDownload(files)

SpecZip == InitZip /\ [][NextZip]_vars

\* What DOWNLOAD_DIR can hold when the server starts: nothing, or a media
\* file an earlier run left there (line 32 accepts an existing directory).
OlderRun == [stem |-> <<"c">>, ext |-> "mp4"]

InitScenario ==
    /\ urls = <<>>
    /\ is_downloading = FALSE
    /\ download_results = <<>>
    /\ tracker = FALSE
    /\ progress_data = <<>>
    /\ snapshot = <<>>
    /\ rpc = "none"
    /\ results = <<>>
    /\ jpc = <<>>
    /\ title = <<>>
    /\ future = <<>>
    /\ stream = <<>>
    /\ disk \in {<<>>, [f \in {OlderRun} |-> [mtime |-> 0, by |-> 0]]}
    /\ nEvents = 0
    /\ nWrites = 0
    /\ files_list = <<>>
    /\ zip_data = NotCalled

\* A batch of MaxScenario lines.
ScenarioBatch(us) == Len(us) = MaxScenario /\ StartBatch(us)

\* Such batches, whose engine leaves files in DOWNLOAD_DIR.
NextScenario ==
    \/ \E us \in Batches(MaxScenario) : ScenarioBatch(us)
    \/ \E i \in 1 .. MaxScenario : WorkerStart(i)
    \/ \E i \in 1 .. MaxScenario : ExtractInfo(i)
    \/ \E i \in 1 .. MaxScenario, e \in Errors : ExtractRaises(i, e)
    \/ \E i \in 1 .. MaxScenario : DownloadReturns(i)
    \/ \E i \in 1 .. MaxScenario, e \in Errors : DownloadRaises(i, e)
    \/ \E i \in 1 .. MaxScenario : Collect(i)
    \/ Publish
    \/ ResetFlag
    \/ \E i \in 1 .. MaxScenario, ext \in EngineExts : EngineWrites(i, ext)

SpecScenario == InitScenario /\ [][NextScenario]_vars

\* Batches whose engine reports progress, run by threads that are scheduled
\* fairly and by an engine whose calls end.
NextLive ==
    \/ \E us \in Batches(MaxLive) : SameUrlBatch(us)
    \/ \E i \in 1 .. MaxLive : WorkerStart(i)
    \/ \E i \in 1 .. MaxLive : ExtractInfo(i)
    \/ \E i \in 1 .. MaxLive, e \in Errors : ExtractRaises(i, e)
    \/ \E i \in 1 .. MaxLive : DownloadReturns(i)
    \/ \E i \in 1 .. MaxLive, e \in Errors : DownloadRaises(i, e)
    \/ \E i \in 1 .. MaxLive : Collect(i)
    \/ Publish
    \/ ResetFlag
    \/ \E i \in 1 .. MaxLive, l \in Levels :
          \E d \in HookEvents(l) : ProgressHook(i, l, d)

\* extract_info and download each return or raise in the end.
EngineCallsEnd ==
    \A i \in 1 .. MaxLive :
        /\ WF_vars(ExtractInfo(i) \/ \E e \in Errors : ExtractRaises(i, e))
        /\ WF_vars(DownloadReturns(i) \/ \E e \in Errors : DownloadRaises(i, e))

\* The workers of the pool and the run_downloads thread get to run.
ThreadsRun ==
    /\ \A i \in 1 .. MaxLive : WF_vars(WorkerStart(i)) /\ WF_vars(Collect(i))
    /\ WF_vars(Publish)
    /\ WF_vars(ResetFlag)

SpecLive == Init /\ [][NextLive]_vars /\ EngineCallsEnd /\ ThreadsRun

----------------------------------------------------------------------------
\* Vocabulary of the properties.

\* The run_downloads thread of a started batch has ended.
BatchDone == tracker /\ rpc = "none"

\* The state a status text of the tracker stands for.
StateOf(status) ==
    IF Head(status) = "Starting" THEN "Starting"
    ELSE IF Head(status) \in {"Downloading:", "Downloading"} THEN "Downloading"
    ELSE IF Head(status) = "Complete" THEN "Finished"
    ELSE "Error"

\* The exception handler of call i has run.
Raised(i) ==
    i \in DOMAIN progress_data /\ StateOf(progress_data[i].status) = "Error"

\* The number a progress text shows; -1 for "Failed", which shows none.
PercentOf(progress) ==
    IF Head(progress) \in {"0", "0.0"} THEN 0
    ELSE IF Head(progress) = "50.0" THEN 50
    ELSE IF Head(progress) \in {"100", "100.0"} THEN 100
    ELSE -1

StatusesOf(res) == {res[k].status : k \in DOMAIN res}

----------------------------------------------------------------------------
\* C1: when run_downloads has finished, download_results holds exactly one
\* result for each submitted call and none twice: it is a rearrangement of
\* the dicts the N calls returned, each carrying the URL of its call.
C1_OneResultPerJob ==
    (rpc \in {"l370", "none"} /\ tracker) =>
        /\ Len(download_results) = Len(urls)
        /\ \E p \in Permutations(Jobs) :
              \A k \in Jobs :
                 /\ future[p[k]].kind = "returned"
                 /\ download_results[k] = future[p[k]].result
                 /\ download_results[k].url = urls[p[k]]

\* A finished batch of two calls, one that found its file and one that raised.
C1_Witness ==
    /\ BatchDone
    /\ Len(urls) = 2
    /\ StatusesOf(download_results) = {"success", "error"}

----------------------------------------------------------------------------
\* The calls whose entry in the tracker reads Starting or Downloading.
ShownActive ==
    {v \in DOMAIN progress_data :
        StateOf(progress_data[v].status) \in {"Starting", "Downloading"}}

\* C2: in no reachable state do more than max_workers calls have a tracker
\* status of Starting or Downloading, however long the batch is.
C2_AtMostWorkersShownActive == Cardinality(ShownActive) <= MaxWorkers

----------------------------------------------------------------------------
\* C3: once the tracker shows a call as Finished ("Complete") or as Error,
\* no later update_progress for that call shows it in another state.
C3_TerminalStatusStays ==
    [][\A v \in DOMAIN progress_data \cap DOMAIN progress_data' :
          StateOf(progress_data[v].status) \in {"Finished", "Error"} =>
              StateOf(progress_data'[v].status) = StateOf(progress_data[v].status)]_vars

----------------------------------------------------------------------------
\* The files of the latest-batch listing that call i of this batch wrote
\* and that no result of the batch names as its output.
ListedOf(i) ==
    {f \in BatchListing :
        /\ disk[f].by = i
        /\ \A k \in DOMAIN download_results : download_results[k].file_path # f}

\* The result call i returned.
ResultOf(i) == future[i].result

\* C4: after the batch, a call whose fetch raised has a result of status
\* 'error' with file_path None, and no file attributable to that call (one
\* it wrote, and no other call's output) is in the file listing of the batch.
C4_RaisedJobLeavesNoListedFile ==
    BatchDone =>
        \A i \in Jobs :
            Raised(i) =>
                /\ ResultOf(i).status = "error"
                /\ ResultOf(i).file_path = None
                /\ ListedOf(i) = {}

----------------------------------------------------------------------------
\* C5: a call whose fetch raised neither ends the run_downloads thread nor
\* keeps any other call from running: the thread is never ended by an
\* exception, and when it has ended every call of the batch has run to its
\* end, the published list holds the result of each, and is_downloading is
\* False again.
C5_FailureIsContained ==
    (\E i \in Jobs : Raised(i)) =>
        /\ rpc # "crashed"
        /\ BatchDone =>
              /\ ~is_downloading
              /\ Len(download_results) = Len(urls)
              /\ \A j \in Jobs :
                    /\ jpc[j] = "collected"
                    /\ future[j].kind = "returned"
                    /\ \E k \in DOMAIN download_results :
                          download_results[k] = ResultOf(j)

\* A finished batch in which the first call raised and a later call went
\* through its download and returned a warning or a success.
C5_Witness ==
    /\ BatchDone
    /\ Len(urls) >= 2
    /\ Raised(1)
    /\ ResultOf(2).status \in {"success", "warning"}
    /\ ~is_downloading

----------------------------------------------------------------------------
\* The directory holds no file with an allowed media suffix whose stem
\* starts with the stem predicted for call i.
NoMatchingMedia(i) ==
    ~ \E f \in DOMAIN disk :
          /\ Lower(f.ext) \in MediaExts
          /\ StartsWith(f.stem, PrepareFilename(urls[i]).stem)

\* C6: when the fetch of a call returns without error and the directory
\* holds no media file matching the predicted stem, the call's result has
\* status 'warning' (not 'success', not 'error') and file_path None.
C6_NoMatchGivesWarning ==
    [][\A i \in 1 .. MaxJobs :
          (DownloadReturns(i) /\ NoMatchingMedia(i)) =>
              /\ future'[i].kind = "returned"
              /\ future'[i].result.status = "warning"
              /\ future'[i].result.file_path = None]_vars

\* A call returned a warning although the engine had left a file under its
\* title, with a suffix that is no media suffix.
C6_Witness ==
    \E i \in Jobs :
        /\ future[i].kind = "returned"
        /\ ResultOf(i).status = "warning"
        /\ \E f \in DOMAIN disk :
              f.stem = PrepareFilename(urls[i]).stem /\ f.ext = "part"

----------------------------------------------------------------------------
\* C7: the percents a reader sees for one call in successive polls of
\* get_all_progress never decrease.
C7_PolledPercentNeverDecreases ==
    [][Poll =>
          \A v \in DOMAIN snapshot :
             LET before == PercentOf(View(snapshot, progress_data)[v].progress)
                 after  == PercentOf(View(snapshot', progress_data')[v].progress)
             IN  (before >= 0 /\ after >= 0) => after >= before]_vars

----------------------------------------------------------------------------
\* The (status, progress) pairs one update_progress call writes.
WrittenPairs ==
    {[status |-> <<"Starting">>, progress |-> <<"0", "%">>],
     [status |-> <<"Complete">>, progress |-> <<"100", "%">>]}
    \cup {[status |-> DownloadingStatus(EngineTitle(u)), progress |-> <<"0", "%">>] :
            u \in URLs}
    \cup {[status |-> <<"Downloading">>, progress |-> Format1f(l)] : l \in Levels}
    \cup {[status |-> ErrorMsg(e), progress |-> <<"Failed">>] : e \in Errors}

\* The step hands the page a new copy: a poll, or the start of a batch.
TakesNewCopy == Poll \/ (rpc # "pool" /\ rpc' = "pool")

\* C8: every entry read through a copy returned by get_all_progress is a
\* pair written by one update_progress call, and what is read through the
\* copy does not change while the workers go on updating the tracker.
C8_SnapshotIsStable ==
    [][/\ \A v \in DOMAIN snapshot' :
             View(snapshot', progress_data')[v] \in WrittenPairs
       /\ TakesNewCopy \/ View(snapshot', progress_data') = View(snapshot, progress_data)]_vars

\* The page holds a copy whose entry for a call differs from what the
\* tracker holds for it now.
C8_Witness ==
    \E v \in DOMAIN snapshot :
        /\ ~snapshot[v].alias
        /\ View(snapshot, progress_data)[v] # progress_data[v]

----------------------------------------------------------------------------
\* C9: download_results is published and is_downloading is False only
\* when no call of the batch is queued or running.
C9_CompletionIsBarrier ==
    (~is_downloading \/ download_results # <<>>) =>
        \A i \in Jobs : jpc[i] \notin {"queued", "l83", "l89"}

\* A batch of two calls has been reported complete.
C9_Witness ==
    /\ tracker
    /\ ~is_downloading
    /\ Len(urls) = 2
    /\ Len(download_results) = 2

----------------------------------------------------------------------------
\* The files that are the output of a success or warning result of the
\* batch and are on disk now.
RetrievableOutputs ==
    {download_results[k].file_path : k \in
        {k \in DOMAIN download_results :
            /\ download_results[k].status \in {"success", "warning"}
            /\ download_results[k].file_path # None}}
    \cap DOMAIN disk

\* C10: the file listing shown after a batch holds exactly the outputs of
\* the batch's success and warning results that are on disk, and no other
\* file of the directory.
C10_ListingIsBatchOutputs == BatchDone => BatchListing = RetrievableOutputs

----------------------------------------------------------------------------
\* The path names a file that is in DOWNLOAD_DIR now.
OnDisk(q) == q.dir = DownloadDir /\ \E f \in DOMAIN disk : f = q.name

\* The paths of a list that name a file on disk.
ExistingOf(files) == {q \in Range(files) : OnDisk(q)}

\* C11: create_zip_download on a list of paths returns an archive whose
\* entries are exactly the base names of the paths of the list that exist
\* when it is called: each of them once for each time it is listed, no
\* missing file, and nothing else.
C11_ZipHoldsExistingFiles ==
    (zip_data # NotCalled /\ files_list # <<>>) =>
        /\ zip_data.kind = "bytes"
        /\ Range(zip_data.entries) = {Basename(q) : q \in ExistingOf(files_list)}
        /\ Len(zip_data.entries) =
              Cardinality({k \in DOMAIN files_list : OnDisk(files_list[k])})

\* A call on a list of one existing and one missing file.
C11_Witness ==
    /\ zip_data.kind = "bytes"
    /\ Len(files_list) = 2
    /\ Cardinality(ExistingOf(files_list)) = 1
    /\ Len(zip_data.entries) = 1

----------------------------------------------------------------------------
\* C12: when no file of the list handed to create_zip_download exists, the
\* call returns None: never an archive that holds no entry.
C12_NothingToPackGivesNone ==
    (zip_data # NotCalled /\ ExistingOf(files_list) = {}) => zip_data = NoArchive

----------------------------------------------------------------------------
\* The media files call i of this batch left in DOWNLOAD_DIR.
LeftBy(i) == {f \in VideoFiles(disk) : disk[f].by = i}

\* A finished batch of three URLs in which the fetch of exactly one raised
\* and each of the other two left one output file.
OneOfThreeRaised ==
    /\ BatchDone
    /\ Len(urls) = 3
    /\ Cardinality({i \in Jobs : Raised(i)}) = 1
    /\ \A i \in Jobs : IF Raised(i) THEN LeftBy(i) = {}
                       ELSE Cardinality(LeftBy(i)) = 1

\* The number of results of a status.
CountOf(res, status) == Cardinality({k \in DOMAIN res : res[k].status = status})

\* The results of the scenario: two successes and one error.
ScenarioResults ==
    OneOfThreeRaised =>
        /\ CountOf(download_results, "success") = 2
        /\ CountOf(download_results, "error") = 1

\* C13: for a batch of three URLs of which exactly one makes the engine
\* raise while the other two each leave one output file, the results are
\* two successes and one error, the listing holds exactly two files, and
\* the archive holds exactly those two files.
C13_ScenarioOneOfThreeFails ==
    OneOfThreeRaised =>
        /\ CountOf(download_results, "success") = 2
        /\ CountOf(download_results, "error") = 1
        /\ Cardinality(BatchListing) = 2
        /\ BatchZip.kind = "bytes"
        /\ Range(BatchZip.entries) = BatchListing

----------------------------------------------------------------------------
\* C14: every published result is a 'success' with a file_path, or a
\* 'warning' with its explanation and no file_path, or an 'error' with its
\* error message and no file_path.
C14_ResultHasOneShape ==
    \A k \in DOMAIN download_results :
        LET r == download_results[k]
        IN  \/ /\ r.status = "success"
               /\ r.file_path # None
               /\ r.message = <<"Downloaded successfully">>
            \/ /\ r.status = "warning"
               /\ r.file_path = None
               /\ r.message = <<"Download completed but file not found on disk">>
            \/ /\ r.status = "error"
               /\ r.file_path = None
               /\ \E e \in Errors : r.message = <<"Error:", e>>

\* A batch has published a success and a warning.
C14_Witness ==
    /\ BatchDone
    /\ StatusesOf(download_results) = {"success", "warning"}

----------------------------------------------------------------------------
\* The files of the directory whose stem starts with the stem predicted
\* for call i and whose suffix is a media suffix.
Candidates(i) ==
    {f \in DOMAIN disk :
        /\ Len(EngineTitle(urls[i])) <= Len(f.stem)
        /\ SubSeq(f.stem, 1, Len(EngineTitle(urls[i]))) = EngineTitle(urls[i])
        /\ Lower(f.ext) \in MediaExts}

\* C15: when the fetch returns and there is a candidate, the file resolved
\* is a candidate (stem starting with the predicted stem, media suffix) of
\* the greatest modification time among the candidates, whatever its
\* suffix, and the result is 'success'.
C15_ResolvesMostRecentCandidate ==
    [][\A i \in 1 .. MaxJobs :
          (DownloadReturns(i) /\ Candidates(i) # {}) =>
              /\ future'[i].result.status = "success"
              /\ future'[i].result.file_path \in Candidates(i)
              /\ \A g \in Candidates(i) :
                    disk[g].mtime <= disk[future'[i].result.file_path].mtime]_vars

\* A call resolved the more recent of two candidates, a file whose suffix
\* is not the predicted one.
C15_Witness ==
    \E i \in Jobs :
        /\ jpc[i] = "done"
        /\ ResultOf(i).status = "success"
        /\ ResultOf(i).file_path \in Candidates(i)
        /\ ResultOf(i).file_path.ext # PrepareFilename(urls[i]).ext
        /\ \E g \in Candidates(i) :
              disk[g].mtime < disk[ResultOf(i).file_path].mtime

----------------------------------------------------------------------------
\* The calls of the batch have titles that differ from one another.
DistinctTitles ==
    \A i, j \in Jobs : i # j => EngineTitle(urls[i]) # EngineTitle(urls[j])

\* C16: when the titles of the batch are distinct, the file a call resolves
\* as its output is never a file another call of the batch wrote.
C16_ResolvedFileIsOwn ==
    DistinctTitles =>
        \A i \in Jobs :
            (future[i].kind = "returned" /\ ResultOf(i).file_path \in DOMAIN disk) =>
                disk[ResultOf(i).file_path].by \notin Jobs \ {i}

----------------------------------------------------------------------------
\* The tracker state that agrees with a result status.
StateFor(status) ==
    IF status = "success" THEN "Finished"
    ELSE IF status = "warning" THEN "Warning"
    ELSE "Error"

\* C17: when the batch is reported complete, the tracker entry of every
\* call is in the terminal state that agrees with the call's result, and
\* none reads Starting or Downloading.
C17_FinalStatusAgreesWithResult ==
    (BatchDone /\ ~is_downloading) =>
        \A i \in Jobs :
            /\ i \in DOMAIN progress_data
            /\ StateOf(progress_data[i].status) = StateFor(ResultOf(i).status)

----------------------------------------------------------------------------
\* C18: after a batch, "All downloads failed" is shown exactly when every
\* result of the batch is an 'error'.
C18_AllFailedMessageIffAllErrors ==
    BatchDone =>
        (AllFailedShown <=> StatusesOf(download_results) = {"error"})

----------------------------------------------------------------------------
\* The step is the start handler's.
Starts == \E us \in Batches(MaxJobs) : StartBatch(us)

\* C19: right after the start of a batch the tracker holds no entry and
\* download_results is empty, and no thread or worker of the batch before
\* is left that could write after the start: its calls have all been
\* collected and its run_downloads has ended.
C19_StartReplacesState ==
    [][Starts =>
          /\ get_all_progress(progress_data') = <<>>
          /\ download_results' = <<>>
          /\ results' = <<>>
          /\ \A i \in Jobs : jpc[i] = "collected"
          /\ rpc = "none"]_vars

\* A batch has just started in a session whose earlier batch left a file.
C19_Witness ==
    /\ rpc = "pool"
    /\ \A i \in Jobs : jpc[i] = "queued"
    /\ progress_data = <<>>
    /\ download_results = <<>>
    /\ \E f \in DOMAIN disk : disk[f].by = 0

----------------------------------------------------------------------------
\* C20: the start handler runs only while is_downloading is False and no
\* run_downloads thread is in its pool, and sets is_downloading; the flag
\* stays set for as long as the thread has not ended.
C20_OneBatchInFlight ==
    [][/\ Starts => (~is_downloading /\ rpc = "none" /\ is_downloading')
       /\ rpc' # "none" => is_downloading']_vars

\* Two workers of the pool of a later batch of the session are running.
C20_Witness ==
    /\ is_downloading
    /\ rpc = "pool"
    /\ Cardinality(Running) = 2
    /\ \E f \in DOMAIN disk : disk[f].by = 0

----------------------------------------------------------------------------
\* The batch has been reported complete with one result for each URL.
Completes == ~is_downloading /\ Len(download_results) = Len(urls)

\* C21: when the engine's calls end and the threads are scheduled fairly,
\* every batch that has started is in the end reported complete:
\* is_downloading is False again and download_results holds one result
\* for each URL of the batch, whichever calls failed.
C21_BatchCompletes == is_downloading ~> Completes

\* A batch all of whose calls failed has been reported complete.
C21_Witness ==
    /\ BatchDone
    /\ Completes
    /\ Len(urls) = MaxLive
    /\ StatusesOf(download_results) = {"error"}

====
